---- MODULE Spec2Model ----
(***************************************************************************)
(* A model of voc (src/voc.py): the disk-backed memoizing cache (Cache,    *)
(* CacheHTML, CacheIndex), the failure-pruning loader (load_modules) and   *)
(* the build (main, build_modules, render_modules, search_index).          *)
(*                                                                         *)
(* Text is modelled at character level: a dotted module name, a path and   *)
(* a file's content are sequences of one-character strings, so that the    *)
(* code's string operations (replace, split, slicing, join, comparison)    *)
(* are computed as Python computes them.                                   *)
(*                                                                         *)
(* Four specifications share the variables: SpecCache (one cache object),  *)
(* SpecLoad (load_modules on any walk), SpecBuild (main run again and      *)
(* again on one output directory) and SpecResolve (load_modules on the     *)
(* walk of the spec list main assembles). pdoc is a library: what          *)
(* Module.from_name, html_module and make_index do is left open or fixed   *)
(* by small tables, and walk_specs follows pdoc's own loop over the specs. *)
(***************************************************************************)
EXTENDS Integers, Sequences, FiniteSets, TLC

VARIABLES
    cache,      \* which specialization the cache object under test is
    files,      \* the disk: a function from the paths of existing files to their content
    dirs,       \* the disk: the set of existing directories
    halted,     \* an exception has propagated out of a cache operation
    last,       \* the latest cache operation: what it was called with and what it did
    first,      \* per key: the first get of the current run of get calls
    computes,   \* per key: compute calls in the current run of get calls
    stored,     \* per key: the value last assigned with cache[key] = value, while its file is untouched
    walk,       \* load_modules: the candidate names walk_specs yields, in order
    pos,        \* load_modules: index of the next candidate of walk
    loaded,     \* load_modules: the dict loaded (its names, in insertion order)
    invalid,    \* load_modules: the set invalid
    attempts,   \* load_modules: the calls of Module.from_name made, with their outcome
    pc,         \* load_modules: "off", "loop", "returned" or "raised"
    result,     \* load_modules: the names of the returned dict, in order
    specs,      \* main: module_names, the spec list handed to build_modules
    search,     \* pdoc.render.env.globals["search"]
    noCache,    \* main: not args.cache, for the current run
    bpc,        \* the build: where the current run of main is
    targets,    \* build_modules: targets, the names of the loader's mapping in order
    bpos,       \* render_modules, search_index: index of the next module of targets
    frags,      \* search_index: the fragments collected so far (index)
    renders,    \* the modules CacheHTML.compute was called for in the current run
    indexes,    \* the modules CacheIndex.compute was called for in the current run
    precompiles,\* the calls of pdoc.search.precompile_index in the current run
    startFiles, \* the files on disk when the current run of main began
    prev,       \* how the run before the current one ended, and its targets
    returned    \* build_modules: the returned set of names

cacheVars == <<cache, files, dirs, halted, last, first, computes, stored>>
loadVars == <<walk, pos, loaded, invalid, attempts, pc, result>>
buildVars == <<specs, search, noCache, bpc, targets, bpos, frags, renders, indexes,
               precompiles, startFiles, prev, returned>>
vars == <<cache, files, dirs, halted, last, first, computes, stored,
          walk, pos, loaded, invalid, attempts, pc, result,
          specs, search, noCache, bpc, targets, bpos, frags, renders, indexes,
          precompiles, startFiles, prev, returned>>

----------------------------------------------------------------------------
(* Characters and strings *)

\* Python's ord() on the characters the model uses.
Ord(c) ==
    CASE c = "." -> 46
      [] c = "/" -> 47
      [] c = "a" -> 97
      [] c = "b" -> 98
      [] c = "d" -> 100
      [] c = "e" -> 101
      [] c = "i" -> 105
      [] c = "n" -> 110
      [] c = "x" -> 120
      [] OTHER -> 0

\* Python's str < str: lexicographic by code point, a proper prefix first.
StrLess(s, t) ==
    \/ /\ Len(s) < Len(t)
       /\ \A j \in 1..Len(s) : s[j] = t[j]
    \/ \E j \in 1..Len(s) :
          /\ j <= Len(t)
          /\ \A h \in 1..(j - 1) : s[h] = t[h]
          /\ Ord(s[j]) < Ord(t[j])

\* str.replace(old, new) for one-character old and new.
Replace(s, old, new) == [j \in 1..Len(s) |-> IF s[j] = old THEN new ELSE s[j]]

\* str.count(".")
CountDots(s) == Cardinality({j \in 1..Len(s) : s[j] = "."})

\* s[:n]
Slice(s, n) == SubSeq(s, 1, IF n < Len(s) THEN n ELSE Len(s))

\* ".".join(s) for a string s: its characters with a dot between each two.
JoinChars(s) ==
    IF Len(s) = 0 THEN <<>>
    ELSE [j \in 1..(2 * Len(s) - 1) |-> IF j % 2 = 1 THEN s[(j + 1) \div 2] ELSE "."]

----------------------------------------------------------------------------
(* The disk *)

\* The module names the cache operations are called with.
Keys == { <<"a">>, <<"a", ".", "b">> }

NoValue == <<"<none>">>
Absent == <<"<absent>">>
BadByte == "<0xff>"

\* render_modules builds its CacheHTML on the output directory itself and
\* search_index its CacheIndex on <output>/.cache/search; paths are relative
\* to the output directory.
CacheRoot(c) ==
    IF c = "html" THEN <<>>
    ELSE <<".", "c", "a", "c", "h", "e", "/", "s", "e", "a", "r", "c", "h">>

\* A key that keeps only the first character of the name.
KeyFirst(c, name) ==
    <<name[1]>> \o
        (IF c = "html" THEN <<".", "h", "t", "m", "l">> ELSE <<".", "j", "s", "o", "n">>)

\* CacheHTML.key and CacheIndex.key
Key(c, name) ==
    Replace(name, ".", "/") \o
        (IF c = "html" THEN <<".", "h", "t", "m", "l">> ELSE <<".", "j", "s", "o", "n">>)

\* self.path / self.key(key)
PathOf(c, name) ==
    IF CacheRoot(c) = <<>> THEN Key(c, name) ELSE CacheRoot(c) \o <<"/">> \o Key(c, name)

\* The directories above a path.
Parents(p) == {SubSeq(p, 1, j - 1) : j \in {h \in 1..Len(p) : p[h] = "/"}}

\* Path.mkdir(parents=True, exist_ok=True) on the parent of p
MkdirParents(ds, p) == ds \cup Parents(p)

\* Path.exists()
Exists(fl, ds, p) == p \in DOMAIN fl \/ p \in ds

\* Writing a file: creates it or replaces its content.
WriteFile(fl, p, content) ==
    [q \in DOMAIN fl \cup {p} |-> IF q = p THEN content ELSE fl[q]]

\* An unlink that leaves the file in place.
UnlinkKeeps(fl, p) == fl

\* Path.unlink()
Unlink(fl, p) == [q \in DOMAIN fl \ {p} |-> fl[q]]

----------------------------------------------------------------------------
(* Values and their serialization *)

\* What CacheHTML.compute can return: text, with and without carriage returns.
HtmlValues == { <<"x">>, <<"x", "\n">>, <<"x", "\r">>, <<"\r", "\n">> }

\* What CacheIndex.compute can return: a list of search entries.
IndexValues == { <<>>, <<"e1">>, <<"e1", "e2">> }
Entries == {"e1", "e2"}

Values(c) == IF c = "html" THEN HtmlValues ELSE IndexValues

\* Path.write_text(value, encoding="utf-8"): text mode, newline=None. On a
\* platform whose os.linesep is "\n" the characters are written as they are.
WriteText(value) == value

\* Universal-newline translation of text-mode reading: "\r\n" and "\r" are
\* read as "\n".
RECURSIVE Universal(_)
Universal(s) ==
    IF Len(s) = 0 THEN <<>>
    ELSE IF s[1] = "\r"
         THEN IF Len(s) >= 2 /\ s[2] = "\n"
              THEN <<"\n">> \o Universal(SubSeq(s, 3, Len(s)))
              ELSE <<"\n">> \o Universal(Tail(s))
         ELSE <<s[1]>> \o Universal(Tail(s))

Decodable(content) == \A j \in 1..Len(content) : content[j] # BadByte

\* Path.read_text(encoding="utf-8")
ReadText(content) ==
    IF Decodable(content)
    THEN [kind |-> "ok", value |-> Universal(content)]
    ELSE [kind |-> "LoadError", value |-> NoValue]

\* json.dump of a list: "[", the items separated by ", ", "]".
JsonDump(value) ==
    <<"[">> \o
    (IF Len(value) = 0 THEN <<>>
     ELSE [j \in 1..(2 * Len(value) - 1) |->
              IF j % 2 = 1 THEN value[(j + 1) \div 2] ELSE ","]) \o
    <<"]">>

\* json.load: the list the text denotes, or a decode error.
JsonLoad(content) ==
    LET n == Len(content)
        inner == SubSeq(content, 2, n - 1)
        wellFormed ==
            /\ Decodable(content)
            /\ n >= 2
            /\ content[1] = "["
            /\ content[n] = "]"
            /\ \/ Len(inner) = 0
               \/ /\ Len(inner) % 2 = 1
                  /\ \A j \in 1..Len(inner) :
                        IF j % 2 = 1 THEN inner[j] \in Entries ELSE inner[j] = ","
    IN  IF wellFormed
        THEN [kind |-> "ok",
              value |-> [j \in 1..((Len(inner) + 1) \div 2) |-> inner[2 * j - 1]]]
        ELSE [kind |-> "LoadError", value |-> NoValue]

\* CacheHTML.save, CacheIndex.save: the content the file gets.
Save(c, value) == IF c = "html" THEN WriteText(value) ELSE JsonDump(value)

\* CacheHTML.load, CacheIndex.load
Load(c, content) == IF c = "html" THEN ReadText(content) ELSE JsonLoad(content)

\* A __getitem__ that reports a file that does not load as a missing key.
GetItemLenient(c, fl, ds, name) ==
    LET p == PathOf(c, name) IN
    IF p \notin DOMAIN fl \/ Load(c, fl[p]).kind # "ok"
    THEN [kind |-> "KeyError", value |-> NoValue]
    ELSE Load(c, fl[p])

\* Cache.__getitem__
GetItem(c, fl, ds, name) ==
    LET p == PathOf(c, name) IN
    IF ~Exists(fl, ds, p) THEN [kind |-> "KeyError", value |-> NoValue]
    ELSE IF p \in DOMAIN fl THEN Load(c, fl[p])
         ELSE [kind |-> "LoadError", value |-> NoValue]

\* Cache.__contains__
Contains(c, fl, ds, name) == Exists(fl, ds, PathOf(c, name))

\* The content of the key's file, or Absent.
ContentOf(c, fl, name) ==
    IF PathOf(c, name) \in DOMAIN fl THEN fl[PathOf(c, name)] ELSE Absent

----------------------------------------------------------------------------
(* The cache operations *)

MaxComputes == 2

Unseen == [seen |-> FALSE, absent |-> FALSE, ret |-> NoValue]
FreshRun == [k \in Keys |-> Unseen]
NoComputes == [k \in Keys |-> 0]
NothingStored == [k \in Keys |-> NoValue]

Op(op, name, pre, ret, found, computed, raised) ==
    [op |-> op, key |-> name, pre |-> pre, ret |-> ret, found |-> found,
     computed |-> computed, raised |-> raised,
     again |-> (last.op = op /\ last.key = name)]

\* The first get of a key in the current run of get calls is remembered.
NoteFirst(name, wasAbsent, ret) ==
    IF first[name].seen THEN first
    ELSE [first EXCEPT ![name] = [seen |-> TRUE, absent |-> wasAbsent, ret |-> ret]]

\* Cache.get, the file is there and loads: return self[key]
GetHit(name) ==
    LET r == GetItem(cache, files, dirs, name) IN
    /\ ~halted
    /\ r.kind = "ok"
    /\ last' = Op("get", name, ContentOf(cache, files, name), r.value, TRUE, FALSE, FALSE)
    /\ first' = NoteFirst(name, FALSE, r.value)
    /\ UNCHANGED <<cache, files, dirs, halted, computes, stored>>

\* Cache.get, the file is there and load raises: nothing catches it
GetLoadRaises(name) ==
    LET r == GetItem(cache, files, dirs, name) IN
    /\ ~halted
    /\ r.kind = "LoadError"
    /\ last' = Op("get", name, ContentOf(cache, files, name), NoValue, TRUE, FALSE, TRUE)
    /\ halted' = TRUE
    /\ UNCHANGED <<cache, files, dirs, first, computes, stored>>

\* Cache.get, KeyError: compute, self[key] = value, return value
GetMiss(name, value) ==
    LET r == GetItem(cache, files, dirs, name)
        p == PathOf(cache, name)
    IN
    /\ ~halted
    /\ r.kind = "KeyError"
    /\ computes[name] < MaxComputes
    /\ computes' = [computes EXCEPT ![name] = @ + 1]
    /\ dirs' = MkdirParents(dirs, p)
    /\ files' = WriteFile(files, p, Save(cache, value))
    /\ last' = Op("get", name, ContentOf(cache, files, name), value, FALSE, TRUE, FALSE)
    /\ first' = NoteFirst(name, TRUE, value)
    /\ stored' = [stored EXCEPT ![name] = NoValue]
    /\ UNCHANGED <<cache, halted>>

\* Cache.get, KeyError, and compute raises: nothing is stored
GetComputeRaises(name) ==
    LET r == GetItem(cache, files, dirs, name) IN
    /\ ~halted
    /\ r.kind = "KeyError"
    /\ computes[name] < MaxComputes
    /\ computes' = [computes EXCEPT ![name] = @ + 1]
    /\ last' = Op("get", name, ContentOf(cache, files, name), NoValue, FALSE, TRUE, TRUE)
    /\ halted' = TRUE
    /\ UNCHANGED <<cache, files, dirs, first, stored>>

\* Cache.__setitem__
SetItem(name, value) ==
    LET p == PathOf(cache, name) IN
    /\ ~halted
    /\ dirs' = MkdirParents(dirs, p)
    /\ files' = WriteFile(files, p, Save(cache, value))
    /\ last' = Op("set", name, ContentOf(cache, files, name), value, FALSE, FALSE, FALSE)
    /\ first' = FreshRun
    /\ computes' = NoComputes
    /\ stored' = [stored EXCEPT ![name] = value]
    /\ UNCHANGED <<cache, halted>>

\* Cache.__delitem__
DelItem(name) ==
    LET p == PathOf(cache, name) IN
    /\ ~halted
    /\ IF ~Exists(files, dirs, p)
       THEN /\ files' = files
            /\ halted' = halted
            /\ last' = Op("del", name, Absent, NoValue, FALSE, FALSE, FALSE)
       ELSE IF p \in DOMAIN files
            THEN /\ files' = Unlink(files, p)
                 /\ halted' = halted
                 /\ last' = Op("del", name, files[p], NoValue, TRUE, FALSE, FALSE)
            ELSE \* unlink of a directory raises
                 /\ files' = files
                 /\ halted' = TRUE
                 /\ last' = Op("del", name, Absent, NoValue, TRUE, FALSE, TRUE)
    /\ first' = FreshRun
    /\ computes' = NoComputes
    /\ stored' = [stored EXCEPT ![name] = NoValue]
    /\ UNCHANGED <<cache, dirs>>

\* Cache.__contains__
ContainsItem(name) ==
    /\ ~halted
    /\ last' = Op("contains", name, ContentOf(cache, files, name), NoValue,
                  Contains(cache, files, dirs, name), FALSE, FALSE)
    /\ UNCHANGED <<cache, files, dirs, halted, first, computes, stored>>

\* What a damaged file can hold: a truncation, or a byte that is not UTF-8.
Damaged(content) ==
    {SubSeq(content, 1, n) : n \in 0..(Len(content) - 1)} \cup {content \o <<BadByte>>}

\* The environment damages a cached file (a torn write, a disk fault).
Damage(name, content) ==
    LET p == PathOf(cache, name) IN
    /\ ~halted
    /\ p \in DOMAIN files
    /\ Decodable(files[p])
    /\ content \in Damaged(files[p])
    /\ files' = WriteFile(files, p, content)
    /\ last' = Op("damage", name, files[p], NoValue, FALSE, FALSE, FALSE)
    /\ first' = FreshRun
    /\ computes' = NoComputes
    /\ stored' = [stored EXCEPT ![name] = NoValue]
    /\ UNCHANGED <<cache, dirs, halted>>

\* After an exception ended a run the program is run again: Cache.__init__
\* makes the root directory; the files are those the last run left.
NewRun ==
    /\ halted
    /\ halted' = FALSE
    /\ dirs' = dirs \cup {CacheRoot(cache)} \cup Parents(CacheRoot(cache))
    /\ last' = [op |-> "init", key |-> <<>>, pre |-> Absent, ret |-> NoValue,
                found |-> FALSE, computed |-> FALSE, raised |-> FALSE, again |-> FALSE]
    /\ first' = FreshRun
    /\ computes' = NoComputes
    /\ UNCHANGED <<cache, files, stored>>

LoaderOff ==
    /\ walk = <<>>
    /\ pos = 1
    /\ loaded = <<>>
    /\ invalid = {}
    /\ attempts = <<>>
    /\ pc = "off"
    /\ result = <<>>

\* No build is running.
BuildOff ==
    /\ search = TRUE
    /\ noCache = FALSE
    /\ bpc = "off"
    /\ targets = <<>>
    /\ bpos = 1
    /\ frags = <<>>
    /\ renders = {}
    /\ indexes = {}
    /\ precompiles = 0
    /\ startFiles = <<>>
    /\ prev = [status |-> "none", targets |-> <<>>]
    /\ returned = {}

\* A cache object right after construction, on an empty output directory.
InitCache ==
    /\ cache \in {"html", "index"}
    /\ files = <<>>
    /\ dirs = {<<>>, CacheRoot(cache)} \cup Parents(CacheRoot(cache))
    /\ halted = FALSE
    /\ last = [op |-> "init", key |-> <<>>, pre |-> Absent, ret |-> NoValue,
               found |-> FALSE, computed |-> FALSE, raised |-> FALSE, again |-> FALSE]
    /\ first = FreshRun
    /\ computes = NoComputes
    /\ stored = NothingStored
    /\ LoaderOff
    /\ specs = <<>>
    /\ BuildOff

NextCache ==
    \/ \E name \in Keys : GetHit(name) /\ UNCHANGED <<loadVars, buildVars>>
    \/ \E name \in Keys : GetLoadRaises(name) /\ UNCHANGED <<loadVars, buildVars>>
    \/ \E name \in Keys : \E value \in Values(cache) : GetMiss(name, value) /\ UNCHANGED <<loadVars, buildVars>>
    \/ \E name \in Keys : GetComputeRaises(name) /\ UNCHANGED <<loadVars, buildVars>>
    \/ \E name \in Keys : \E value \in Values(cache) : SetItem(name, value) /\ UNCHANGED <<loadVars, buildVars>>
    \/ \E name \in Keys : DelItem(name) /\ UNCHANGED <<loadVars, buildVars>>
    \/ \E name \in Keys : ContainsItem(name) /\ UNCHANGED <<loadVars, buildVars>>
    \/ \E name \in Keys : \E content \in Damaged(ContentOf(cache, files, name)) :
          Damage(name, content) /\ UNCHANGED <<loadVars, buildVars>>
    \/ NewRun /\ UNCHANGED <<loadVars, buildVars>>

SpecCache == InitCache /\ [][NextCache]_vars

----------------------------------------------------------------------------
(* load_modules *)

MaxWalk == 4

\* The names walk_specs can yield.
Candidates ==
    { <<"a">>, <<"b">>, <<"a", "b">>, <<"a", ".", "b">>,
      <<"a", "b", ".", "a">>, <<"a", ".", "b", ".", "a">> }

\* What walk_specs yields: candidate names, each once, in walk order.
Walks ==
    {w \in UNION {[1..n -> Candidates] : n \in 0..MaxWalk} :
        \A j, h \in DOMAIN w : j # h => w[j] # w[h]}

\* How pdoc.doc.Module.from_name(name) can end: the module, a RuntimeError
\* saying "Error importing", another RuntimeError, another exception.
Outcomes == {"ok", "import_error", "runtime_error", "other_error"}

Range(s) == {s[j] : j \in DOMAIN s}

\* {".".join(name[:i]) for i in range(1, len(parts))}, parts = name.split(".")
InvalidAdded(name) == {JoinChars(Slice(name, n)) : n \in 1..CountDots(name)}

\* loaded[name] = module: a dict keeps the place of a key it already has.
DictPut(d, name) == IF name \in Range(d) THEN d ELSE Append(d, name)

\* int(bool(name.count(".")))
Nested(name) == IF CountDots(name) > 0 THEN 1 ELSE 0

\* A sort key of the name alone.
SortKeyPlain(x, y) == StrLess(x, y)

\* The sort key (int(bool(x[0].count("."))), x[0]) of x is less than that of y.
SortKeyLess(x, y) ==
    \/ Nested(x) < Nested(y)
    \/ Nested(x) = Nested(y) /\ StrLess(x, y)

\* sorted(...): a stable sort by the key.
RECURSIVE InsertSorted(_, _)
InsertSorted(x, s) ==
    IF s = <<>> THEN <<x>>
    ELSE IF SortKeyLess(x, Head(s)) THEN <<x>> \o s
         ELSE <<Head(s)>> \o InsertSorted(x, Tail(s))

RECURSIVE Sorted(_)
Sorted(s) ==
    IF s = <<>> THEN <<>>
    ELSE InsertSorted(s[Len(s)], Sorted(SubSeq(s, 1, Len(s) - 1)))

\* The returned dict: sorted(loaded.items(), key=...) if name not in invalid
Returned(d, inv) ==
    LET keep(name) == name \notin inv IN SelectSeq(Sorted(d), keep)

Attempt(name, outcome) == [name |-> name, outcome |-> outcome]

\* One iteration: if name in invalid: continue
LoadSkip ==
    /\ pc = "loop"
    /\ pos <= Len(walk)
    /\ walk[pos] \in invalid
    /\ pos' = pos + 1
    /\ UNCHANGED <<walk, loaded, invalid, attempts, pc, result>>

\* One iteration: loaded[name] = pdoc.doc.Module.from_name(name)
LoadImport ==
    /\ pc = "loop"
    /\ pos <= Len(walk)
    /\ walk[pos] \notin invalid
    /\ attempts' = Append(attempts, Attempt(walk[pos], "ok"))
    /\ loaded' = DictPut(loaded, walk[pos])
    /\ pos' = pos + 1
    /\ UNCHANGED <<walk, invalid, pc, result>>

\* One iteration: from_name raises RuntimeError("Error importing ...")
LoadImportError ==
    /\ pc = "loop"
    /\ pos <= Len(walk)
    /\ walk[pos] \notin invalid
    /\ attempts' = Append(attempts, Attempt(walk[pos], "import_error"))
    /\ invalid' = invalid \cup InvalidAdded(walk[pos])
    /\ pos' = pos + 1
    /\ UNCHANGED <<walk, loaded, pc, result>>

\* One iteration: from_name raises a RuntimeError that does not say
\* "Error importing": the except clause catches it and does nothing
LoadRuntimeError ==
    /\ pc = "loop"
    /\ pos <= Len(walk)
    /\ walk[pos] \notin invalid
    /\ attempts' = Append(attempts, Attempt(walk[pos], "runtime_error"))
    /\ pos' = pos + 1
    /\ UNCHANGED <<walk, loaded, invalid, pc, result>>

\* One iteration: from_name raises something that is no RuntimeError
LoadOtherError ==
    /\ pc = "loop"
    /\ pos <= Len(walk)
    /\ walk[pos] \notin invalid
    /\ attempts' = Append(attempts, Attempt(walk[pos], "other_error"))
    /\ pc' = "raised"
    /\ UNCHANGED <<walk, pos, loaded, invalid, result>>

\* The candidates are exhausted: return the sorted, filtered dict
LoadReturn ==
    /\ pc = "loop"
    /\ pos > Len(walk)
    /\ result' = Returned(loaded, invalid)
    /\ pc' = "returned"
    /\ UNCHANGED <<walk, pos, loaded, invalid, attempts>>

CacheIdle ==
    /\ cache = "html"
    /\ files = <<>>
    /\ dirs = {<<>>}
    /\ halted = FALSE
    /\ last = [op |-> "init", key |-> <<>>, pre |-> Absent, ret |-> NoValue,
               found |-> FALSE, computed |-> FALSE, raised |-> FALSE, again |-> FALSE]
    /\ first = FreshRun
    /\ computes = NoComputes
    /\ stored = NothingStored

\* load_modules is entered: loaded = {}, invalid = set()
InitLoad ==
    /\ walk \in Walks
    /\ pos = 1
    /\ loaded = <<>>
    /\ invalid = {}
    /\ attempts = <<>>
    /\ pc = "loop"
    /\ result = <<>>
    /\ CacheIdle
    /\ specs = <<>>
    /\ BuildOff

NextLoad ==
    \/ LoadSkip /\ UNCHANGED <<cacheVars, buildVars>>
    \/ LoadImport /\ UNCHANGED <<cacheVars, buildVars>>
    \/ LoadImportError /\ UNCHANGED <<cacheVars, buildVars>>
    \/ LoadRuntimeError /\ UNCHANGED <<cacheVars, buildVars>>
    \/ LoadOtherError /\ UNCHANGED <<cacheVars, buildVars>>
    \/ LoadReturn /\ UNCHANGED <<cacheVars, buildVars>>

SpecLoad == InitLoad /\ [][NextLoad]_vars

----------------------------------------------------------------------------
(* The cache contracts *)

\* In a run of get calls, the computes of a seen key number one if its file
\* was absent at its first get and none if it was present.
ComputeOncePerMiss ==
    \A k \in Keys :
        first[k].seen => computes[k] = (IF first[k].absent THEN 1 ELSE 0)

\* C1: memoization law of Cache.get. In a run of get calls with no write,
\* delete or damage in between, compute is invoked for a key once if its file
\* was absent before the first get of it and never if it was present, and
\* every later get of the key returns the value its first get returned.
C1_MemoizationLaw ==
    /\ ComputeOncePerMiss
    /\ (last.op = "get" /\ ~last.raised /\ first[last.key].seen)
          => last.ret = first[last.key].ret

\* C2: after cache[K] = V, whatever K held before, K is in the cache and
\* get(K) returns V without a compute.
C2_SetThenGet ==
    /\ last.op = "set" => Contains(cache, files, dirs, last.key)
    /\ (last.op = "contains" /\ stored[last.key] # NoValue) => last.found
    /\ (last.op = "get" /\ stored[last.key] # NoValue)
          => /\ ~last.raised
             /\ ~last.computed
             /\ last.ret = stored[last.key]

\* C3: delete is idempotent. Deleting a present key removes its file, so
\* that the key is no longer in the cache; deleting an absent key raises
\* nothing and leaves files and directories as they were.
C3_DeleteIdempotent ==
    [][\A k \in Keys :
          DelItem(k) =>
             /\ ~halted'
             /\ ~Contains(cache, files', dirs', k)
             /\ ~Contains(cache, files, dirs, k) => (files' = files /\ dirs' = dirs)
             /\ \A q \in DOMAIN files' : q \in DOMAIN files /\ files'[q] = files[q]
      ]_vars

\* A key was deleted twice in a row, the second time absent, with another
\* key's file on disk.
C3_Witness ==
    /\ last.op = "del"
    /\ last.again
    /\ ~last.found
    /\ ~last.raised
    /\ files # <<>>

\* C4: a get of a key whose file exists and does not load raises; it calls
\* no compute and the file stays as it was.
C4_LoadFailureSurfaces ==
    (/\ last.op = "get"
     /\ last.pre # Absent
     /\ Load(cache, last.pre).kind # "ok")
        => /\ last.raised
           /\ halted
           /\ ~last.computed
           /\ last.ret = NoValue
           /\ ContentOf(cache, files, last.key) = last.pre

\* A get met a truncated index fragment.
C4_Witness ==
    /\ cache = "index"
    /\ last.op = "get"
    /\ last.pre # Absent
    /\ Decodable(last.pre)
    /\ Load(cache, last.pre).kind = "LoadError"
    /\ last.raised

----------------------------------------------------------------------------
(* The loader contracts *)

\* The ancestor dotted-prefixes of a name: for a.b.c these are a and a.b.
DottedPrefixes(name) ==
    {SubSeq(name, 1, j - 1) : j \in {h \in 1..Len(name) : name[h] = "."}}

\* The name, or an ancestor dotted-prefix of it, is in the set.
Covered(name, set) == name \in set \/ DottedPrefixes(name) \cap set # {}

\* The candidates whose import failed with an import-time error.
Failed == {attempts[j].name : j \in {h \in DOMAIN attempts : attempts[h].outcome = "import_error"}}

\* The candidates that imported.
Imported == {attempts[j].name : j \in {h \in DOMAIN attempts : attempts[h].outcome = "ok"}}

\* The ancestor dotted-prefixes of the failed candidates.
FailedPrefixes == UNION {DottedPrefixes(name) : name \in Failed}

\* C5: a candidate that is reached while it, or an ancestor dotted-prefix of
\* it, is in invalid is skipped: no import of it is attempted.
C5_CoveredIsSkipped ==
    [][(/\ pc = "loop"
        /\ pos <= Len(walk)
        /\ Covered(walk[pos], invalid))
          => (attempts' = attempts /\ pos' = pos + 1)]_vars

\* C6: an import-time error of a candidate adds to invalid the ancestor
\* dotted-prefixes of its name, all of them and nothing else, and the loop
\* goes on with the next candidate.
C6_FailureAddsPrefixes ==
    [][LoadImportError
          => /\ invalid' = invalid \cup DottedPrefixes(walk[pos])
             /\ pos' = pos + 1
             /\ pc' = "loop"]_vars

\* C7: no name of the returned mapping equals, or is nested under, an
\* ancestor dotted-prefix of a candidate whose import failed.
C7_ResultPruned ==
    pc = "returned" => \A name \in Range(result) : ~Covered(name, FailedPrefixes)

\* C8: every candidate that imported and neither equals nor is nested under
\* an ancestor dotted-prefix of a failed candidate is in the returned mapping.
C8_UnrelatedKept ==
    pc = "returned" =>
        \A name \in Imported : ~Covered(name, FailedPrefixes) => name \in Range(result)

\* C9: an import that raises anything but an import-time error ends
\* load_modules at once, with the exception: nothing is returned.
C9_OtherErrorsPropagate ==
    \A j \in DOMAIN attempts :
        attempts[j].outcome \notin {"ok", "import_error"}
            => (pc = "raised" /\ j = Len(attempts))

\* C10: the returned mapping lists the names without a dot before the names
\* with one, and the names of each of the two tiers in ascending
\* lexicographic order.
C10_ResultOrder ==
    pc = "returned" =>
        \A j, h \in DOMAIN result :
            j < h =>
                /\ CountDots(result[j]) > 0 => CountDots(result[h]) > 0
                /\ ((CountDots(result[j]) > 0) = (CountDots(result[h]) > 0))
                      => StrLess(result[j], result[h])

\* The loaded names b, a.b, a, ab.a (walked in that order) are returned as
\* a, b, a.b, ab.a.
C10_Witness ==
    /\ pc = "returned"
    /\ loaded = << <<"b">>, <<"a", ".", "b">>, <<"a">>, <<"a", "b", ".", "a">> >>
    /\ result = << <<"a">>, <<"b">>, <<"a", ".", "b">>, <<"a", "b", ".", "a">> >>

----------------------------------------------------------------------------
(* The build: main, build_modules, render_modules, search_index *)

MaxModules == 2

\* The module names the builds are run on.
BuildNames == { <<"a">>, <<"a", ".", "b">>, <<"i", "n", "d", "e", "x">> }


\* output_directory / "index.html" and output_directory / "search.js"
IndexHtml == <<"i", "n", "d", "e", "x", ".", "h", "t", "m", "l">>
SearchJs == <<"s", "e", "a", "r", "c", "h", ".", "j", "s">>

\* args.output / ".cache"
PathCache == <<".", "c", "a", "c", "h", "e">>

\* The path lies inside the directory.
IsUnder(p, d) ==
    /\ Len(p) > Len(d) + 1
    /\ SubSeq(p, 1, Len(d)) = d
    /\ p[Len(d) + 1] = "/"

\* What walk_specs yields for the spec list the builds are run with: each
\* name once, in the order of the specs.
BuildWalks ==
    {w \in UNION {[1..n -> BuildNames] : n \in 1..MaxModules} :
        \A j, h \in DOMAIN w : j # h => w[j] # w[h]}

\* shutil.rmtree(d): the files that are left
RmtreeFiles(fl, d) == [q \in {p \in DOMAIN fl : ~IsUnder(p, d)} |-> fl[q]]

\* shutil.rmtree(d): the directories that are left
RmtreeDirs(ds, d) == {p \in ds : p # d /\ ~IsUnder(p, d)}

\* pdoc.render.html_module(module, modules): the page of the module
RenderModule(name) == <<"<page>">> \o name

\* pdoc.render.html_index(modules): the aggregate page, when it is not empty
RenderIndex(names) == <<"<index>">>

\* pdoc.search.make_index for one module: its search entries
MakeIndex(name) ==
    CASE name = <<"a">> -> <<"e1">>
      [] name = <<"a", ".", "b">> -> <<"e1", "e2">>
      [] name = <<"i", "n", "d", "e", "x">> -> <<"e2">>
      [] OTHER -> <<>>

\* The search.js template rendered on precompile_index(index, compile_js)
RenderSearch(index) == <<"<search>">> \o index

\* A membership test that never finds the page.
InCacheNever(fl, ds, name) == FALSE

\* render_modules: module in cache, for the CacheHTML on output_directory
InCache(fl, ds, name) == Contains("html", fl, ds, name)

\* A search_index that fetches the fragments whatever the search setting is.
FetchedAlways(enabled, names) == names

\* search_index: the modules whose fragments are fetched, none when the
\* search is disabled (return "" before the comprehension)
Fetched(enabled, names) == IF enabled THEN names ELSE <<>>

\* A fragment list that is put in front of the collected ones.
CollectFront(index, fragments) == fragments \o index

\* search_index: the comprehension appends the fragments of a module
Collect(index, fragments) == index \o fragments

\* A returned set that lacks the first target.
ReturnedTail(names) == IF names = <<>> THEN {} ELSE Range(Tail(names))

\* build_modules: set(targets.keys())
ReturnedSet(names) == Range(names)

Ended == {"idle", "done", "load_aborted", "render_aborted", "search_aborted"}

\* main: the cache subtree is removed if --no-cache is given and it exists;
\* build_modules makes the output directory and enters load_modules
Main(nc) ==
    /\ bpc \in Ended
    /\ prev' = [status |-> bpc, targets |-> IF bpc = "done" THEN targets ELSE <<>>]
    /\ startFiles' = files
    /\ noCache' = nc
    /\ IF nc /\ Exists(files, dirs, PathCache)
       THEN /\ files' = RmtreeFiles(files, PathCache)
            /\ dirs' = RmtreeDirs(dirs, PathCache) \cup {<<>>}
       ELSE /\ files' = files
            /\ dirs' = dirs \cup {<<>>}
    /\ bpc' = "load"
    /\ pc' = "loop"
    /\ pos' = 1
    /\ loaded' = <<>>
    /\ invalid' = {}
    /\ attempts' = <<>>
    /\ result' = <<>>
    /\ targets' = <<>>
    /\ bpos' = 1
    /\ frags' = <<>>
    /\ renders' = {}
    /\ indexes' = {}
    /\ precompiles' = 0
    /\ returned' = {}
    /\ UNCHANGED <<cache, halted, last, first, computes, stored, walk, specs, search>>

\* load_modules raised: the exception leaves build_modules and main
BuildLoadRaised ==
    /\ bpc = "load"
    /\ pc = "raised"
    /\ bpc' = "load_aborted"
    /\ pc' = "off"
    /\ pos' = 1
    /\ loaded' = <<>>
    /\ invalid' = {}
    /\ attempts' = <<>>
    /\ UNCHANGED <<cacheVars, walk, result, specs, search, noCache, targets, bpos, frags,
                   renders, indexes, precompiles, startFiles, prev, returned>>

\* build_modules: targets = load_modules(modules); render_modules builds its
\* CacheHTML on the output directory
BuildLoaded ==
    /\ bpc = "load"
    /\ pc = "returned"
    /\ targets' = result
    /\ pc' = "off"
    /\ pos' = 1
    /\ loaded' = <<>>
    /\ invalid' = {}
    /\ attempts' = <<>>
    /\ result' = <<>>
    /\ dirs' = dirs \cup {CacheRoot("html")} \cup Parents(CacheRoot("html"))
    /\ bpc' = "render"
    /\ bpos' = 1
    /\ UNCHANGED <<cache, files, halted, last, first, computes, stored, walk, specs, search,
                   noCache, frags, renders, indexes, precompiles, startFiles, prev, returned>>

\* render_modules, one module that is in the cache: nothing is done
RenderCached ==
    /\ bpc = "render"
    /\ bpos <= Len(targets)
    /\ InCache(files, dirs, targets[bpos])
    /\ bpos' = bpos + 1
    /\ UNCHANGED <<cacheVars, loadVars, specs, search, noCache, bpc, targets, frags, renders,
                   indexes, precompiles, startFiles, prev, returned>>

\* render_modules, one module that is not: cache[module] = cache.compute(module)
RenderModuleStep ==
    LET name == targets[bpos]
        p == PathOf("html", name)
    IN
    /\ bpc = "render"
    /\ bpos <= Len(targets)
    /\ ~InCache(files, dirs, name)
    /\ renders' = renders \cup {name}
    /\ dirs' = MkdirParents(dirs, p)
    /\ files' = WriteFile(files, p, Save("html", RenderModule(name)))
    /\ bpos' = bpos + 1
    /\ UNCHANGED <<cache, halted, last, first, computes, stored, loadVars, specs, search,
                   noCache, bpc, targets, frags, indexes, precompiles, startFiles, prev,
                   returned>>

\* A rendering that, when compute raises, removes the entries written so far.
RenderRaisesWipes ==
    /\ bpc = "render"
    /\ bpos <= Len(targets)
    /\ ~InCache(files, dirs, targets[bpos])
    /\ renders' = renders \cup {targets[bpos]}
    /\ files' = <<>>
    /\ bpc' = "render_aborted"
    /\ UNCHANGED <<cache, dirs, halted, last, first, computes, stored, loadVars, specs, search,
                   noCache, targets, bpos, frags, indexes, precompiles, startFiles, prev,
                   returned>>

\* render_modules, one module that is not, and cache.compute raises
RenderRaises ==
    /\ bpc = "render"
    /\ bpos <= Len(targets)
    /\ ~InCache(files, dirs, targets[bpos])
    /\ renders' = renders \cup {targets[bpos]}
    /\ bpc' = "render_aborted"
    /\ UNCHANGED <<cacheVars, loadVars, specs, search, noCache, targets, bpos, frags, indexes,
                   precompiles, startFiles, prev, returned>>

\* render_modules after the loop: index.html is written if html_index gave
\* any text; search_index is entered and builds its CacheIndex
WriteIndex(nonEmpty) ==
    /\ bpc = "render"
    /\ bpos > Len(targets)
    /\ files' = IF nonEmpty THEN WriteFile(files, IndexHtml, RenderIndex(targets)) ELSE files
    /\ dirs' = dirs \cup {CacheRoot("index")} \cup Parents(CacheRoot("index"))
    /\ bpc' = "search"
    /\ bpos' = 1
    /\ frags' = <<>>
    /\ UNCHANGED <<cache, halted, last, first, computes, stored, loadVars, specs, search,
                   noCache, targets, renders, indexes, precompiles, startFiles, prev, returned>>

\* search_index, one module: cache.get((name, mod)) finds the file
SearchCached ==
    LET todo == Fetched(search, targets)
        r == GetItem("index", files, dirs, todo[bpos])
    IN
    /\ bpc = "search"
    /\ bpos <= Len(todo)
    /\ r.kind # "KeyError"
    /\ IF r.kind = "ok"
       THEN /\ frags' = Collect(frags, r.value)
            /\ bpos' = bpos + 1
            /\ bpc' = bpc
       ELSE /\ frags' = frags
            /\ bpos' = bpos
            /\ bpc' = "search_aborted"
    /\ UNCHANGED <<cacheVars, loadVars, specs, search, noCache, targets, renders, indexes,
                   precompiles, startFiles, prev, returned>>

\* search_index, one module: cache.get((name, mod)) computes and stores
SearchComputed ==
    LET todo == Fetched(search, targets)
        name == todo[bpos]
        p == PathOf("index", name)
        r == GetItem("index", files, dirs, name)
    IN
    /\ bpc = "search"
    /\ bpos <= Len(todo)
    /\ r.kind = "KeyError"
    /\ indexes' = indexes \cup {name}
    /\ dirs' = MkdirParents(dirs, p)
    /\ files' = WriteFile(files, p, Save("index", MakeIndex(name)))
    /\ frags' = Collect(frags, MakeIndex(name))
    /\ bpos' = bpos + 1
    /\ UNCHANGED <<cache, halted, last, first, computes, stored, loadVars, specs, search,
                   noCache, bpc, targets, renders, precompiles, startFiles, prev, returned>>

\* search_index, one module: cache.get((name, mod)) computes, and compute raises
SearchRaises ==
    LET todo == Fetched(search, targets)
        r == GetItem("index", files, dirs, todo[bpos])
    IN
    /\ bpc = "search"
    /\ bpos <= Len(todo)
    /\ r.kind = "KeyError"
    /\ indexes' = indexes \cup {todo[bpos]}
    /\ bpc' = "search_aborted"
    /\ UNCHANGED <<cacheVars, loadVars, specs, search, noCache, targets, bpos, frags, renders,
                   precompiles, startFiles, prev, returned>>

\* search_index with the search disabled returns "": render_modules writes
\* nothing and build_modules returns
SearchDisabled ==
    /\ bpc = "search"
    /\ ~search
    /\ bpos > Len(Fetched(search, targets))
    /\ bpc' = "done"
    /\ returned' = ReturnedSet(targets)
    /\ UNCHANGED <<cacheVars, loadVars, specs, search, noCache, targets, bpos, frags, renders,
                   indexes, precompiles, startFiles, prev>>

\* search_index after the comprehension: precompile_index on the collected
\* index; render_modules writes search.js and build_modules returns
Precompile ==
    /\ bpc = "search"
    /\ search
    /\ bpos > Len(Fetched(search, targets))
    /\ precompiles' = precompiles + 1
    /\ files' = WriteFile(files, SearchJs, RenderSearch(frags))
    /\ bpc' = "done"
    /\ returned' = ReturnedSet(targets)
    /\ UNCHANGED <<cache, dirs, halted, last, first, computes, stored, loadVars, specs,
                   search, noCache, targets, bpos, frags, renders, indexes, startFiles, prev>>

\* An empty output directory; the program has not run yet.
InitBuild ==
    /\ CacheIdle
    /\ walk \in BuildWalks
    /\ pos = 1
    /\ loaded = <<>>
    /\ invalid = {}
    /\ attempts = <<>>
    /\ pc = "off"
    /\ result = <<>>
    /\ specs = <<>>
    /\ search \in BOOLEAN
    /\ noCache = FALSE
    /\ bpc = "idle"
    /\ targets = <<>>
    /\ bpos = 1
    /\ frags = <<>>
    /\ renders = {}
    /\ indexes = {}
    /\ precompiles = 0
    /\ startFiles = <<>>
    /\ prev = [status |-> "none", targets |-> <<>>]
    /\ returned = {}

NextBuild ==
    \/ \E nc \in BOOLEAN : Main(nc)
    \/ LoadSkip /\ bpc = "load" /\ UNCHANGED <<cacheVars, buildVars>>
    \/ LoadImport /\ bpc = "load" /\ UNCHANGED <<cacheVars, buildVars>>
    \/ LoadImportError /\ bpc = "load" /\ UNCHANGED <<cacheVars, buildVars>>
    \/ LoadRuntimeError /\ bpc = "load" /\ UNCHANGED <<cacheVars, buildVars>>
    \/ LoadOtherError /\ bpc = "load" /\ UNCHANGED <<cacheVars, buildVars>>
    \/ LoadReturn /\ bpc = "load" /\ UNCHANGED <<cacheVars, buildVars>>
    \/ BuildLoadRaised
    \/ BuildLoaded
    \/ RenderCached
    \/ RenderModuleStep
    \/ RenderRaises
    \/ \E nonEmpty \in BOOLEAN : WriteIndex(nonEmpty)
    \/ SearchCached
    \/ SearchComputed
    \/ SearchRaises
    \/ SearchDisabled
    \/ Precompile

SpecBuild == InitBuild /\ [][NextBuild]_vars

----------------------------------------------------------------------------
(* The build contracts *)

\* The names of a sequence of modules.
Names(names) == {names[j] : j \in DOMAIN names}

\* The current run follows a completed run that resolved the same modules,
\* and the cache subtree was not cleared in between.
Rerun == prev.status = "done" /\ prev.targets = targets /\ ~noCache

\* C11: a build that follows a completed build on the same output directory
\* with the same resolved modules, the cache not cleared, calls no compute:
\* no page is rendered and no fragment is made, every check is a hit.
C11_SecondRunComputesNothing ==
    Rerun => (renders = {} /\ indexes = {})

C11_Witness ==
    /\ Rerun
    /\ bpc = "done"
    /\ search
    /\ Len(targets) = MaxModules

\* C12: with the search disabled a build leaves no fragment in the index
\* cache, makes no fragment, never runs the precompiler and writes no
\* search.js.
C12_SearchDisabledWritesNothing ==
    ~search =>
        /\ \A p \in DOMAIN files : ~IsUnder(p, CacheRoot("index"))
        /\ SearchJs \notin DOMAIN files
        /\ indexes = {}
        /\ precompiles = 0

C12_Witness ==
    /\ ~search
    /\ bpc = "done"
    /\ Len(targets) = MaxModules

\* C13: a completed build with the force-rebuild flag has rendered every
\* module of the final set and, with the search enabled, made the fragment
\* of every one of them: nothing of an earlier run was reused.
C13_ForceRebuildsAll ==
    (noCache /\ bpc = "done") =>
        /\ renders = Names(targets)
        /\ search => indexes = Names(targets)

\* C14: every file on disk lies under .cache/, where the pages and the
\* fragments have their roots, but for index.html and search.js at the
\* output root.
C14_LayoutUnderCache ==
    \A p \in DOMAIN files : p \in {IndexHtml, SearchJs} \/ IsUnder(p, PathCache)

\* The fragment lists the index cache holds on disk for the modules, one
\* after the other in the order of the modules.
RECURSIVE StoredFragments(_)
StoredFragments(names) ==
    IF names = <<>> THEN <<>>
    ELSE GetItem("index", files, dirs, Head(names)).value \o StoredFragments(Tail(names))

\* C16: with the search enabled the precompiler has not run before the
\* fragments of all modules were fetched, it runs once in a build, and the
\* payload in search.js is made from the fragment lists of all modules, one
\* after the other in the final module order.
C16_PayloadInModuleOrder ==
    search =>
        /\ precompiles = (IF bpc = "done" THEN 1 ELSE 0)
        /\ bpc = "done" =>
              /\ bpos > Len(targets)
              /\ frags = StoredFragments(targets)
              /\ files[SearchJs] = RenderSearch(StoredFragments(targets))

C16_Witness ==
    /\ search
    /\ bpc = "done"
    /\ precompiles = 1
    /\ Len(targets) = MaxModules
    /\ indexes # {}
    /\ indexes # Names(targets)

\* The runs that ended with an exception out of rendering or indexing.
Aborted == {"render_aborted", "search_aborted"}

\* C17: an exception out of rendering or indexing leaves every file on disk
\* as it is, the next build without the force-rebuild flag starts from
\* these files, and such a build calls compute only for modules whose
\* entry was not on disk when it started.
C17_Resumable ==
    /\ [][(bpc \notin Aborted /\ bpc' \in Aborted) => files' = files]_vars
    /\ [][(bpc \in Aborted /\ bpc' \notin Aborted /\ ~noCache') => files' = files]_vars
    /\ [](~noCache =>
            /\ \A name \in renders : PathOf("html", name) \notin DOMAIN startFiles
            /\ \A name \in indexes : PathOf("index", name) \notin DOMAIN startFiles)

C17_Witness ==
    /\ prev.status \in Aborted
    /\ ~noCache
    /\ bpc = "done"
    /\ Len(targets) = MaxModules
    /\ renders # {}
    /\ \E name \in Names(targets) : PathOf("html", name) \in DOMAIN startFiles

\* C18: after a completed build the file at the page path of every module
\* of the final set holds the rendered page of that module.
C18_PagesNotClobbered ==
    bpc = "done" =>
        \A name \in Names(targets) :
            GetItem("html", files, dirs, name) = [kind |-> "ok", value |-> RenderModule(name)]

\* C20: a completed build with the search enabled returns the names of the
\* loader's mapping, and the page and the fragment of each of them are on
\* disk at the paths derived from the name.
C20_BuildPostcondition ==
    (bpc = "done" /\ search) =>
        /\ returned = Names(targets)
        /\ \A name \in Names(targets) :
              /\ PathOf("html", name) \in DOMAIN files
              /\ PathOf("index", name) \in DOMAIN files

C20_Witness ==
    /\ bpc = "done"
    /\ search
    /\ returned # {}
    /\ Cardinality(returned) = MaxModules

\* A set, delete or get of the key is the step taken.
WritesKey(name) ==
    \/ \E value \in Values(cache) : SetItem(name, value)
    \/ DelItem(name)
    \/ GetHit(name)
    \/ GetLoadRaises(name)
    \/ \E value \in Values(cache) : GetMiss(name, value)
    \/ GetComputeRaises(name)

\* C19: in both caches distinct dotted names have distinct file paths, and
\* a set, delete or get of one key leaves the membership, the file content
\* and the value read for every other key as they were.
C19_OtherKeysUntouched ==
    /\ [](\A c \in {"html", "index"} : \A k1, k2 \in Candidates \cup BuildNames :
             k1 # k2 => PathOf(c, k1) # PathOf(c, k2))
    /\ [][\A name, other \in Keys :
             (WritesKey(name) /\ other # name) =>
                 /\ Contains(cache, files', dirs', other) = Contains(cache, files, dirs, other)
                 /\ ContentOf(cache, files', other) = ContentOf(cache, files, other)
                 /\ GetItem(cache, files', dirs', other) = GetItem(cache, files, dirs, other)]_vars

C19_Witness ==
    /\ last.op = "set"
    /\ last.key = <<"a", ".", "b">>
    /\ ~last.found
    /\ last.pre = Absent
    /\ stored[<<"a">>] # NoValue
    /\ Contains(cache, files, dirs, <<"a">>)
    /\ Contains(cache, files, dirs, <<"a", ".", "b">>)

----------------------------------------------------------------------------
(* From the arguments to the candidates *)

MaxSpecs == 2

\* The modules that are installed: the packages a (with a.b, with a.b.a)
\* and ab (with ab.a), and the module b of the standard library.
Installed == Candidates

\* get_stdlib()
Stdlib == << <<"b">> >>

\* A negated spec: the pattern with "!" in front.
Neg(pattern) == <<"!">> \o pattern

\* spec.startswith("!")
IsNegated(spec) == Len(spec) > 0 /\ spec[1] = "!"

\* The specs the arguments are drawn from.
PlainSpecs == { <<"a">>, <<"a", "b">> }
NegSpecs == { Neg(<<"a", ".", "b">>), Neg(<<"a", "b">>) }

\* The name lies under the package: pkg, a dot, more.
SubmoduleOf(name, pkg) ==
    /\ Len(name) > Len(pkg) + 1
    /\ SubSeq(name, 1, Len(pkg)) = pkg
    /\ name[Len(pkg) + 1] = "."

\* re.compile(pattern).match(name), for patterns of letters and dots: a
\* match at the start of the name, a dot standing for any character.
Match(pattern, name) ==
    /\ Len(name) >= Len(pattern)
    /\ \A j \in 1..Len(pattern) : pattern[j] = "." \/ pattern[j] = name[j]

\* The names of a set, a package before its submodules.
RECURSIVE PackageFirst(_)
PackageFirst(S) ==
    IF S = {} THEN <<>>
    ELSE LET m == CHOOSE x \in S : \A y \in S : Len(x) <= Len(y)
         IN  <<m>> \o PackageFirst(S \ {m})

\* walk_packages2 on a plain spec: the module and, recursively, its
\* submodules; nothing for a name that is not installed.
Discover(spec) == PackageFirst({m \in Installed : m = spec \/ SubmoduleOf(m, spec)})

\* all_modules[m.name] = None for each discovered name, in order
RECURSIVE PutAll(_, _)
PutAll(all, names) ==
    IF names = <<>> THEN all ELSE PutAll(DictPut(all, Head(names)), Tail(names))

\* pdoc.extract.walk_specs, its loop over the specs: a negated spec removes
\* the names collected so far that its pattern matches; a plain spec adds
\* the names it discovers.
RECURSIVE WalkFrom(_, _)
WalkFrom(all, todo) ==
    IF todo = <<>> THEN all
    ELSE IF IsNegated(Head(todo))
         THEN WalkFrom(SelectSeq(all, LAMBDA k : ~Match(Tail(Head(todo)), k)), Tail(todo))
         ELSE WalkFrom(PutAll(all, Discover(Head(todo))), Tail(todo))

\* pdoc.extract.walk_specs(modules)
WalkSpecs(todo) == WalkFrom(<<>>, todo)

\* DEFAULT_IGNORE, a set of negated specs
DEFAULT_IGNORE ==
    { <<"!", "i", "d", "l", "e", "l", "i", "b">>,
      <<"!", "i", "d", "l", "e", "l", "i", "b", ".">>,
      <<"!", "t", "u", "r", "t", "l", "e", "d", "e", "m", "o", ".">>,
      <<"!", "l", "i", "b", "2", "t", "o", "3", ".">> }

\* list(DEFAULT_IGNORE): the members once each, in the order the set
\* iterates in, which the hash seed of the process decides.
DefaultIgnoreLists ==
    {l \in [1..Cardinality(DEFAULT_IGNORE) -> DEFAULT_IGNORE] :
        \A j, h \in DOMAIN l : j # h => l[j] # l[h]}

\* cli: args.ignore, the default list with each --ignore value appended
\* (action="append" on default=list(DEFAULT_IGNORE))
ArgsIgnore(defaults, given) == defaults \o given

\* main: module_names, the standard library names, then args.ignore, then
\* the modules of the command line
Assemble(stdlib, ignore, modules) ==
    (IF stdlib THEN Stdlib ELSE <<>>) \o ignore \o modules

\* The sequences of at most n members of S.
SeqsUpTo(S, n) == UNION {[1..h -> S] : h \in 0..n}

\* main has assembled the specs and load_modules has called walk_specs,
\* which raises a ValueError when no module is left.
InitResolve ==
    /\ \E stdlib \in BOOLEAN :
       \E defaults \in DefaultIgnoreLists :
       \E given \in SeqsUpTo(NegSpecs, MaxSpecs) :
       \E modules \in SeqsUpTo(PlainSpecs \cup NegSpecs, MaxSpecs) :
          specs = Assemble(stdlib, ArgsIgnore(defaults, given), modules)
    /\ walk = WalkSpecs(specs)
    /\ pos = 1
    /\ loaded = <<>>
    /\ invalid = {}
    /\ attempts = <<>>
    /\ pc = (IF walk = <<>> THEN "raised" ELSE "loop")
    /\ result = <<>>
    /\ CacheIdle
    /\ BuildOff

SpecResolve == InitResolve /\ [][NextLoad]_vars

\* The name is the pattern of the negated spec or lies under it.
Excluded(spec, name) == name = Tail(spec) \/ SubmoduleOf(name, Tail(spec))

\* The name is the plain spec or lies under it, and no negated spec of the
\* list excludes it.
Included(name) ==
    /\ \E j \in DOMAIN specs :
          ~IsNegated(specs[j]) /\ (name = specs[j] \/ SubmoduleOf(name, specs[j]))
    /\ \A j \in DOMAIN specs : IsNegated(specs[j]) => ~Excluded(specs[j], name)

\* C15: for the spec list main assembles, a name that a negated spec
\* names, or that lies under such a name, is no candidate and is not in the
\* returned mapping, and the names the plain specs include are candidates
\* unless a negated spec excludes them.
C15_NegatedNeverResolved ==
    \A name \in Installed :
        /\ (\E j \in DOMAIN specs : IsNegated(specs[j]) /\ Excluded(specs[j], name))
              => (name \notin Range(walk) /\ name \notin Range(result))
        /\ Included(name) => name \in Range(walk)

====
